---- MODULE Spec2Model ----
\* A model of the Rust code generator of `typical` (src/src/generate_rust.rs):
\* `generate` builds a tree of modules from a set of schemas and renders it
\* as Rust source text.  The text is modelled as the sequence of the strings
\* written to the buffer, one element per `write!` (a `writeln!` writes its
\* text and then "\n").
EXTENDS Integers, Sequences, FiniteSets, TLC

\* ------------------------------------------------------------------------
\* Bounds of the model
\* ------------------------------------------------------------------------

\* Largest number of fields (variants) of the varied declaration.
MaxFields == 2

\* Largest number of schemas of a schema set drawn from the simple schemas.
MaxSchemas == 2

\* The largest number of calls of insert_schema in a row.
MaxCalls == 3

\* The largest number of imports of a schema that is displayed.
MaxImports == 2

\* The largest number of declarations of a schema that is displayed.
MaxDeclarations == 2

\* The largest number of bytes serialize writes, and the largest size().
MaxBytes == 2

\* ------------------------------------------------------------------------
\* Constants of the program
\* ------------------------------------------------------------------------

INDENTATION == "    "

TRAITS_TO_DERIVE == "Clone, Debug"

RUST_KEYWORDS ==
    { "Self", "abstract", "as", "async", "await", "become", "box", "break",
      "const", "continue", "crate", "do", "dyn", "else", "enum", "extern",
      "false", "final", "fn", "for", "if", "impl", "in", "let", "loop",
      "macro", "match", "mod", "move", "mut", "override", "priv", "pub",
      "ref", "return", "self", "static", "struct", "super", "trait", "true",
      "try", "type", "typeof", "unsafe", "unsized", "use", "virtual",
      "where", "while", "yield" }

\* ------------------------------------------------------------------------
\* Identifiers: a non-empty sequence of lowercase word segments
\* ------------------------------------------------------------------------

\* The words identifiers are built from, in ascending string order.
WordOrder ==
    << "and", "bar", "basic", "foo", "main", "s", "self", "type", "unit",
       "void", "x", "y" >>

Words == { WordOrder[i] : i \in 1..Len(WordOrder) }

WordRank(w) == CHOOSE i \in 1..Len(WordOrder) : WordOrder[i] = w

\* The word with its first letter in upper case.
Capitalize(w) ==
    CASE w = "and"   -> "And"
      [] w = "bar"   -> "Bar"
      [] w = "basic" -> "Basic"
      [] w = "foo"   -> "Foo"
      [] w = "main"  -> "Main"
      [] w = "s"     -> "S"
      [] w = "self"  -> "Self"
      [] w = "type"  -> "Type"
      [] w = "unit"  -> "Unit"
      [] w = "void"  -> "Void"
      [] w = "x"     -> "X"
      [] w = "y"     -> "Y"

RECURSIVE pascal_case(_)
pascal_case(id) ==
    IF id = <<>> THEN "" ELSE Capitalize(Head(id)) \o pascal_case(Tail(id))

RECURSIVE snake_case(_)
snake_case(id) ==
    IF Len(id) = 1 THEN Head(id)
    ELSE Head(id) \o "_" \o snake_case(Tail(id))

\* Ord for Identifier: identifiers compare by their segments.
RECURSIVE IdentLess(_, _)
IdentLess(a, b) ==
    IF b = <<>> THEN FALSE
    ELSE IF a = <<>> THEN TRUE
    ELSE IF Head(a) = Head(b) THEN IdentLess(Tail(a), Tail(b))
    ELSE WordRank(Head(a)) < WordRank(Head(b))

\* Ord for Namespace (a Vec of Identifiers): lexicographic.
RECURSIVE NamespaceLess(_, _)
NamespaceLess(a, b) ==
    IF b = <<>> THEN FALSE
    ELSE IF a = <<>> THEN TRUE
    ELSE IF Head(a) = Head(b) THEN NamespaceLess(Tail(a), Tail(b))
    ELSE IdentLess(Head(a), Head(b))

\* The identifiers of a finite set in ascending order: the order in which a
\* BTreeMap keyed by Identifier iterates.
RECURSIVE SortIdentifiers(_)
SortIdentifiers(S) ==
    IF S = {} THEN <<>>
    ELSE LET m == CHOOSE x \in S : \A y \in S \ {x} : IdentLess(x, y)
         IN  <<m>> \o SortIdentifiers(S \ {m})

\* Iteration over a BTreeMap keyed by Identifier: its keys, ascending.
BTreeKeys(map) == SortIdentifiers(DOMAIN map)

\* BTreeMap::is_empty
IsEmpty(map) == DOMAIN map = {}

\* The namespaces of a finite set in ascending order: the order in which a
\* BTreeMap keyed by Namespace iterates.
RECURSIVE SortNamespaces(_)
SortNamespaces(S) ==
    IF S = {} THEN <<>>
    ELSE LET m == CHOOSE x \in S : \A y \in S \ {x} : NamespaceLess(x, y)
         IN  <<m>> \o SortNamespaces(S \ {m})

\* ------------------------------------------------------------------------
\* Schemas
\* ------------------------------------------------------------------------

\* Option<T>: None is the empty sequence, Some(x) the sequence of x alone.
None == <<>>

Some(x) == <<x>>

\* schema::Type
BoolType == [variant |-> "Bool", import |-> None, name |-> <<>>]

CustomType(import, name) ==
    [variant |-> "Custom", import |-> import, name |-> name]

\* The schema with no imports and no declarations.
EmptySchema == [imports |-> <<>>, declarations |-> <<>>]

\* The names of a sequence of named items.
Names(items) == { items[i].name : i \in DOMAIN items }

\* The item called n of a sequence of uniquely named items.
ItemNamed(items, n) == items[CHOOSE i \in DOMAIN items : items[i].name = n]

\* The maps from name to item the items of a source file are collected
\* into: the order in which the file lists the items is not part of them.
FieldsOf(fields) ==
    [n \in Names(fields) |->
        [unstable |-> ItemNamed(fields, n).unstable,
         type     |-> ItemNamed(fields, n).type]]

DeclarationsOf(declarations) ==
    [n \in Names(declarations) |->
        [variant |-> ItemNamed(declarations, n).variant,
         fields  |-> FieldsOf(ItemNamed(declarations, n).fields)]]

ImportsOf(imports) ==
    [n \in Names(imports) |-> [namespace |-> ItemNamed(imports, n).namespace]]

\* The schema of a source file, given as its imports and declarations in
\* the order in which the file lists them.
SchemaOf(contents) ==
    [imports      |-> ImportsOf(contents.imports),
     declarations |-> DeclarationsOf(contents.declarations)]

\* ------------------------------------------------------------------------
\* The tree of modules
\* ------------------------------------------------------------------------

\* A Module is a schema and a map from identifier to child Module.  A tree
\* of Modules is held as the function from the path of each of its nodes
\* (the identifiers from the root down to the node) to the node's schema;
\* the root is the node of the empty path.
EmptyTree == [p \in {<<>>} |-> EmptySchema]

\* module.children of the node at path `at`, as the set of its keys.
Children(t, at) ==
    { p[Len(p)] : p \in { q \in DOMAIN t : /\ Len(q) = Len(at) + 1
                                           /\ SubSeq(q, 1, Len(at)) = at } }

\* An insert_schema that leaves a schema that is not empty in its place.
WithNodeKept(t, at, schema) ==
    [p \in DOMAIN t \cup {at} |->
        IF p = at /\ (at \notin DOMAIN t \/ t[at] = EmptySchema)
        THEN schema ELSE t[p]]

\* The tree with the node at path `at` added or replaced.
WithNode(t, at, schema) ==
    [p \in DOMAIN t \cup {at} |-> IF p = at THEN schema ELSE t[p]]

RECURSIVE insert_schema(_, _, _, _)

\* An insert_schema that makes a new child also where the child exists: the
\* child that exists, and all that is below it, is lost.
insert_schema_anew(t, at, components, schema) ==
    IF components # <<>>
    THEN LET head  == Head(components)
             below == { p \in DOMAIN t :
                          /\ Len(p) > Len(at)
                          /\ SubSeq(p, 1, Len(at) + 1) = Append(at, head) }
             rest  == [p \in DOMAIN t \ below |-> t[p]]
         IN  insert_schema(WithNode(rest, Append(at, head), EmptySchema),
                           Append(at, head), Tail(components), schema)
    ELSE WithNode(t, at, schema)

\* insert_schema on the node at path `at` of tree t.
insert_schema(t, at, components, schema) ==
    IF components # <<>>
    THEN LET head == Head(components)
         IN  IF head \in Children(t, at)
             THEN insert_schema(t, Append(at, head), Tail(components), schema)
             ELSE insert_schema(WithNode(t, Append(at, head), EmptySchema),
                                Append(at, head), Tail(components), schema)
    ELSE WithNode(t, at, schema)

\* ------------------------------------------------------------------------
\* Writing
\* ------------------------------------------------------------------------

\* The concatenation of a sequence of sequences.
RECURSIVE Concat(_)
Concat(ss) == IF ss = <<>> THEN <<>> ELSE Head(ss) \o Concat(Tail(ss))

\* writeln!(buffer, text)
Writeln(text) == <<text, "\n">>

\* writeln!(buffer)
Newline == <<"\n">>

\* str::starts_with
StartsWith(str, prefix) ==
    /\ Len(str) >= Len(prefix)
    /\ SubSeq(str, 1, Len(prefix)) = prefix

\* A write_indentation whose loop runs once too often.
WriteIndentationInclusive(indentation) ==
    [i \in 1..(indentation + 1) |-> INDENTATION]

WriteIndentation(indentation) == [i \in 1..indentation |-> INDENTATION]

\* A write_identifier whose list of keywords lacks `Self`.
NeedsEscapeLowercase(converted_name) ==
    /\ ~StartsWith(converted_name, "r#")
    /\ converted_name \in RUST_KEYWORDS \ {"Self"}

\* The condition under which write_identifier writes `r#` before a name.
NeedsEscape(converted_name) ==
    /\ ~StartsWith(converted_name, "r#")
    /\ converted_name \in RUST_KEYWORDS

WriteIdentifier(identifier, case) ==
    LET converted_name == IF case = "Pascal" THEN pascal_case(identifier)
                          ELSE snake_case(identifier)
    IN  (IF NeedsEscape(converted_name) THEN <<"r#">> ELSE <<>>)
        \o <<converted_name>>

\* schema::relativize_namespace: the components of `target` after the longest
\* prefix it shares with `current`, and the number of components of
\* `current` after that prefix.
RECURSIVE relativize_namespace(_, _)
relativize_namespace(target, current) ==
    IF target # <<>> /\ current # <<>> /\ Head(target) = Head(current)
    THEN relativize_namespace(Tail(target), Tail(current))
    ELSE [components |-> target, ancestors |-> Len(current)]

\* The text of a flavor.
FlavorSuffix(flavor) ==
    CASE flavor = "In"     -> "In"
      [] flavor = "Out"    -> "Out"
      [] flavor = "Stable" -> "Stable"

\* A write_type that writes no ancestor marker.
WriteNoAncestors(ancestors) == <<>>

\* A write_type that writes at most one ancestor marker.
WriteOneAncestor(ancestors) == [i \in 1..(IF ancestors > 0 THEN 1 ELSE 0) |-> "super::"]

\* The ancestor markers write_type writes.
WriteAncestors(ancestors) == [i \in 1..ancestors |-> "super::"]

WriteType(imports, namespace, type, in_or_out_or_stable) ==
    IF type.variant = "Bool" THEN <<"bool">>
    ELSE LET type_namespace ==
                 IF type.import = None THEN namespace
                 ELSE imports[type.import[1]]
             relative == relativize_namespace(type_namespace, namespace)
         IN  WriteAncestors(relative.ancestors)
             \o Concat([i \in 1..Len(relative.components) |->
                          WriteIdentifier(relative.components[i], "Snake")
                          \o <<"::">>])
             \o WriteIdentifier(type.name, "Pascal")
             \o <<FlavorSuffix(in_or_out_or_stable)>>

\* A write_struct_field that wraps the type of a restricted field in Option
\* in the Out struct as well.
IsOptionalInOut(field, in_or_out) == field.unstable

\* The condition under which write_struct_field wraps the type in Option.
IsOptional(field, in_or_out) == field.unstable /\ in_or_out = "In"

WriteStructField(indentation, imports, namespace, name, field, in_or_out) ==
    WriteIndentation(indentation)
    \o WriteIdentifier(name, "Snake")
    \o <<": ">>
    \o (IF IsOptional(field, in_or_out) THEN <<"Option<">> ELSE <<>>)
    \o WriteType(imports, namespace, field.type, in_or_out)
    \o (IF IsOptional(field, in_or_out) THEN <<">">> ELSE <<>>)
    \o Writeln(",")

\* A write_choice_field that writes the fallbacks in the In flavor instead
\* of the Out flavor.
HasFallbackIn(field, in_or_out_or_stable) ==
    in_or_out_or_stable = "In" /\ field.unstable

\* A write_choice_field that writes the fallbacks whatever the flavor.
HasFallbackAnyFlavor(field, in_or_out_or_stable) == field.unstable

\* The condition under which write_choice_field writes the fallbacks.
HasFallback(field, in_or_out_or_stable) ==
    in_or_out_or_stable = "Out" /\ field.unstable

WriteChoiceField(indentation, imports, namespace, choice_name, name, field, in_or_out_or_stable) ==
    WriteIndentation(indentation)
    \o WriteIdentifier(name, "Pascal")
    \o <<"(">>
    \o WriteType(imports, namespace, field.type, in_or_out_or_stable)
    \o (IF HasFallback(field, in_or_out_or_stable)
        THEN <<", Vec<">>
             \o WriteIdentifier(choice_name, "Pascal")
             \o <<"Out>, ">>
             \o WriteIdentifier(choice_name, "Pascal")
             \o <<"Stable">>
        ELSE <<>>)
    \o Writeln("),")

WriteStruct(indentation, imports, namespace, name, fields, in_or_out) ==
    LET keys == BTreeKeys(fields)
    IN  WriteIndentation(indentation)
        \o Writeln("#[derive(" \o TRAITS_TO_DERIVE \o ")]")
        \o WriteIndentation(indentation)
        \o <<"pub struct ">>
        \o WriteIdentifier(name, "Pascal")
        \o <<FlavorSuffix(in_or_out)>>
        \o Writeln(" {")
        \o Concat([i \in 1..Len(keys) |->
                     WriteStructField(indentation + 1, imports, namespace,
                                      keys[i], fields[keys[i]], in_or_out)])
        \o WriteIndentation(indentation)
        \o Writeln("}")

\* A write_choice that lists the restricted variants in the Stable flavor.
IsListedAlways(field, in_or_out_or_stable) == TRUE

\* The condition under which write_choice writes a variant.
IsListed(field, in_or_out_or_stable) ==
    ~(in_or_out_or_stable = "Stable" /\ field.unstable)

\* A write_choice that has the variants of every flavor written at Out.
FieldFlavorOut(in_or_out_or_stable) == "Out"

\* A write_choice that has the variants of Stable written at Stable.
FieldFlavorSame(in_or_out_or_stable) == in_or_out_or_stable

\* The flavor at which write_choice has the variants of a flavor written.
FieldFlavor(in_or_out_or_stable) ==
    IF in_or_out_or_stable = "Stable" THEN "Out" ELSE in_or_out_or_stable

WriteChoice(indentation, imports, namespace, name, fields, in_or_out_or_stable) ==
    LET keys == BTreeKeys(fields)
    IN  WriteIndentation(indentation)
        \o Writeln("#[derive(" \o TRAITS_TO_DERIVE \o ")]")
        \o WriteIndentation(indentation)
        \o <<"pub enum ">>
        \o WriteIdentifier(name, "Pascal")
        \o <<FlavorSuffix(in_or_out_or_stable)>>
        \o Writeln(" {")
        \o Concat([i \in 1..Len(keys) |->
                     IF IsListed(fields[keys[i]], in_or_out_or_stable)
                     THEN WriteChoiceField(
                              indentation + 1, imports, namespace, name,
                              keys[i], fields[keys[i]],
                              FieldFlavor(in_or_out_or_stable))
                     ELSE <<>>])
        \o WriteIndentation(indentation)
        \o Writeln("}")

\* The flavors write_schema writes for a struct, in the order of its calls.
StructFlavors == <<"In", "Out">>

\* A write_schema that writes the Stable flavor of a choice last.
ChoiceFlavorsStableLast == <<"In", "Out", "Stable">>

\* The flavors write_schema writes for a choice, in the order of its calls.
ChoiceFlavors == <<"Stable", "In", "Out">>

\* One iteration of the loop of write_schema: the flavors of the declaration
\* called `name` with a blank line between them, and a blank line after
\* them when another declaration follows.
WriteDeclaration(indentation, imports, namespace, name, declaration, more) ==
    (IF declaration.variant = "Struct"
     THEN Concat([i \in 1..Len(StructFlavors) |->
                    (IF i > 1 THEN Newline ELSE <<>>)
                    \o WriteStruct(indentation, imports, namespace, name,
                                   declaration.fields, StructFlavors[i])])
     ELSE Concat([i \in 1..Len(ChoiceFlavors) |->
                    (IF i > 1 THEN Newline ELSE <<>>)
                    \o WriteChoice(indentation, imports, namespace, name,
                                   declaration.fields, ChoiceFlavors[i])]))
    \o (IF more THEN Newline ELSE <<>>)

\* An import map with the last component of the namespace of each import as
\* its key, and not the name the import is bound to.
ImportMapByNamespace(schema) ==
    LET KeyOf(ns) == IF ns = <<>> THEN <<>> ELSE ns[Len(ns)]
        resolved  == { schema.imports[name].namespace[1] :
                         name \in DOMAIN schema.imports }
    IN  [key \in { KeyOf(ns) : ns \in resolved } |->
            CHOOSE ns \in resolved : KeyOf(ns) = key]

\* The map write_schema builds: from the name of each import to the
\* namespace of the import.
ImportMap(schema) ==
    [name \in DOMAIN schema.imports |-> schema.imports[name].namespace[1]]

\* write_schema panics: it unwraps the namespace of an import that has none.
UnwrapPanics(schema) ==
    \E name \in DOMAIN schema.imports : schema.imports[name].namespace = None

\* write_type panics: it indexes the imports with a name they do not have.
IndexPanics(imports, type) ==
    /\ type.variant = "Custom"
    /\ type.import # None
    /\ type.import[1] \notin DOMAIN imports

\* write_schema panics: in building the imports, or in writing the type of
\* a field of a declaration.
SchemaPanics(schema) ==
    \/ UnwrapPanics(schema)
    \/ \E d \in DOMAIN schema.declarations :
         \E f \in DOMAIN schema.declarations[d].fields :
           IndexPanics(ImportMap(schema),
                       schema.declarations[d].fields[f].type)

WriteSchema(indentation, namespace, schema) ==
    LET imports == ImportMap(schema)
        keys    == BTreeKeys(schema.declarations)
    IN  Concat([i \in 1..Len(keys) |->
                  WriteDeclaration(indentation, imports, namespace, keys[i],
                                   schema.declarations[keys[i]],
                                   i < Len(keys))])

\* A write_module_contents that writes a blank line after every child.
FollowedByBlankLineAlways(i, len, schema_empty) == TRUE

\* The condition under which write_module_contents writes a blank line
\* after the child of index i (from 0) of len children.
FollowedByBlankLine(i, len, schema_empty) == i < len - 1 \/ ~schema_empty

RECURSIVE WriteModule(_, _, _, _)
RECURSIVE WriteModuleContents(_, _, _)

\* write_module for the child `name` of the node at path `namespace`.
WriteModule(t, indentation, namespace, name) ==
    WriteIndentation(indentation)
    \o Writeln("#[rustfmt::skip]")
    \o WriteIndentation(indentation)
    \o <<"pub mod ">>
    \o WriteIdentifier(name, "Snake")
    \o Writeln(" {")
    \o WriteModuleContents(t, indentation + 1, Append(namespace, name))
    \o WriteIndentation(indentation)
    \o Writeln("}")

\* A write_module_contents that writes the declarations of the node before
\* its children.
WriteModuleContentsSchemaFirst(t, indentation, namespace) ==
    LET schema_empty == IsEmpty(t[namespace].declarations)
        children     == SortIdentifiers(Children(t, namespace))
    IN  WriteSchema(indentation, namespace, t[namespace])
        \o Concat([i \in 1..Len(children) |->
                     (IF i = 1 /\ ~schema_empty THEN Newline ELSE <<>>)
                     \o WriteModule(t, indentation, namespace, children[i])
                     \o (IF i < Len(children) THEN Newline ELSE <<>>)])

\* write_module_contents for the node at path `namespace`.
WriteModuleContents(t, indentation, namespace) ==
    LET schema_empty == IsEmpty(t[namespace].declarations)
        children     == SortIdentifiers(Children(t, namespace))
    IN  Concat([i \in 1..Len(children) |->
                  WriteModule(t, indentation, namespace, children[i])
                  \o (IF FollowedByBlankLine(i - 1, Len(children),
                                             schema_empty)
                      THEN Newline ELSE <<>>)])
        \o WriteSchema(indentation, namespace, t[namespace])

\* A generate that writes only when a node of the tree has a declaration.
HasContentDeclared(t) ==
    \E p \in DOMAIN t : ~IsEmpty(t[p].declarations)

\* A generate that writes the header whatever the tree holds.
HasContentAlways(t) == TRUE

\* The condition under which generate writes anything.
HasContent(t) == Children(t, <<>>) # {} \/ ~IsEmpty(t[<<>>].declarations)

\* generate panics: it writes a schema of the tree that panics.
Panics(t) == HasContent(t) /\ \E p \in DOMAIN t : SchemaPanics(t[p])

\* The text generate writes for the tree t.
WriteCode(t) ==
    IF HasContent(t)
    THEN Writeln("#![allow(clippy::all, clippy::pedantic, clippy::nursery, warnings)]")
         \o Newline
         \o WriteModuleContents(t, 0, <<>>)
    ELSE <<>>

\* ------------------------------------------------------------------------
\* The schema sets generate is applied to
\* ------------------------------------------------------------------------

\* A source file: its imports and its declarations as the file lists them.
Source(imports, declarations) ==
    [imports |-> imports, declarations |-> declarations]

SourceField(name, unstable, type) ==
    [name |-> name, unstable |-> unstable, type |-> type]

SourceDeclaration(name, variant, fields) ==
    [name |-> name, variant |-> variant, fields |-> fields]

SourceImport(name, namespace) ==
    [name |-> name, namespace |-> Some(namespace)]

\* One value of the map generate takes: the schema of a source file and the
\* contents of the file.
Entry(contents) == [schema |-> SchemaOf(contents), contents |-> contents]

EmptySource == Source(<<>>, <<>>)

\* struct Unit {}
UnitSource == Source(<<>>, <<SourceDeclaration(<<"unit">>, "Struct", <<>>)>>)

\* choice Void {}
VoidSource == Source(<<>>, <<SourceDeclaration(<<"void">>, "Choice", <<>>)>>)

SimpleSources == {EmptySource, UnitSource, VoidSource}

\* struct Unit {} and choice Void {} in one file.
PairSource ==
    Source(<<>>, << SourceDeclaration(<<"unit">>, "Struct", <<>>),
                    SourceDeclaration(<<"void">>, "Choice", <<>>) >>)

\* An import the namespace of which is not resolved.
UnresolvedImport(name) == [name |-> name, namespace |-> None]

NamespacePool ==
    { <<>>,
      << <<"basic">> >>,
      << <<"basic">>, <<"unit">> >>,
      << <<"basic">>, <<"void">> >>,
      << <<"main">> >>,
      << <<"type">> >>,
      << <<"basic">>, <<"unit">>, <<"self">> >> }

\* The schema sets of at most MaxSchemas simple schemas.
SimpleSets ==
    UNION { [S -> { Entry(c) : c \in SimpleSources }] :
              S \in { T \in SUBSET NamespacePool :
                        Cardinality(T) <= MaxSchemas } }

UnitNamespace == << <<"basic">>, <<"unit">> >>

VoidNamespace == << <<"basic">>, <<"void">> >>

MainNamespace == << <<"main">> >>

\* The fields (variants) the varied declaration is built from.
FieldPool ==
    { SourceField(<<"x">>, FALSE, BoolType),
      SourceField(<<"y">>, TRUE, BoolType),
      SourceField(<<"s">>, TRUE, CustomType(Some(<<"unit">>), <<"unit">>)),
      SourceField(<<"type">>, FALSE,
                  CustomType(Some(<<"void">>), <<"void">>)),
      SourceField(<<"self">>, TRUE, CustomType(None, <<"bar">>)),
      SourceField(<<"foo", "bar">>, FALSE, CustomType(None, <<"bar">>)) }

\* The lists of at most MaxFields fields with different names, in any order.
FieldLists ==
    UNION { { l \in [1..n -> FieldPool] :
                \A i, j \in 1..n : i # j => l[i] # l[j] } :
            n \in 0..MaxFields }

\* The declaration `Bar` next to the varied declaration.
BarDeclaration(variant) ==
    SourceDeclaration(<<"bar">>, variant,
                      << SourceField(<<"y">>, TRUE, BoolType),
                         SourceField(<<"x">>, FALSE, BoolType) >>)

VariedNames == { <<"and">>, <<"foo">>, <<"self">> }

Variants == {"Struct", "Choice"}

\* The sources of the main schema: the varied declaration before or after
\* the declaration Bar.
MainSources ==
    { Source(<< SourceImport(<<"unit">>, UnitNamespace),
                SourceImport(<<"void">>, VoidNamespace) >>,
             IF first THEN << SourceDeclaration(n, v, l), BarDeclaration(b) >>
             ELSE << BarDeclaration(b), SourceDeclaration(n, v, l) >>) :
        <<n, v, l, b, first>> \in
            VariedNames \X Variants \X FieldLists \X Variants \X BOOLEAN }

\* The schema sets of the main schema and the two schemas it imports.
MainSets ==
    { [ns \in {UnitNamespace, VoidNamespace, MainNamespace} |->
          IF ns = UnitNamespace THEN Entry(UnitSource)
          ELSE IF ns = VoidNamespace THEN Entry(VoidSource)
          ELSE Entry(c)] :
        c \in MainSources }

\* The schema sets of a schema at namespace a that refers to the type Unit
\* of a schema at another namespace b.
ImportSets ==
    { [ns \in {ab[1], ab[2]} |->
          IF ns = ab[2] THEN Entry(UnitSource)
          ELSE Entry(Source(
                   << SourceImport(<<"unit">>, ab[2]) >>,
                   << SourceDeclaration(<<"foo">>, "Struct",
                        << SourceField(<<"x">>, TRUE,
                             CustomType(Some(<<"unit">>), <<"unit">>)) >>)
                   >>))] :
        ab \in { p \in NamespacePool \X NamespacePool : p[1] # p[2] } }

\* The schema sets of a schema and the schemas of two modules below it.
NestedSets ==
    [{ << <<"basic">> >>, UnitNamespace, VoidNamespace } ->
        { Entry(c) : c \in SimpleSources \cup {PairSource} }]

\* The lists of imports of the schemas that are not all valid.
LooseImports ==
    { <<>>,
      << UnresolvedImport(<<"unit">>) >>,
      << SourceImport(<<"unit">>, UnitNamespace) >>,
      << SourceImport(<<"unit">>, UnitNamespace),
         UnresolvedImport(<<"void">>) >> }

\* The types of the fields of the schemas that are not all valid.
LooseTypes ==
    { BoolType,
      CustomType(Some(<<"unit">>), <<"unit">>),
      CustomType(Some(<<"unit">>), <<"void">>),
      CustomType(Some(<<"void">>), <<"void">>),
      CustomType(None, <<"foo">>),
      CustomType(None, <<"bar">>) }

\* The schema sets of the schema Unit and a schema that imports it, among
\* them sets no validator accepts: with an import that is not resolved,
\* with a type qualified by a name that is not an import, and with a type
\* that no schema declares.
LooseSets ==
    { [ns \in {at, UnitNamespace} |->
          IF ns = UnitNamespace THEN Entry(UnitSource)
          ELSE Entry(Source(imports,
                   IF fields = 0 THEN <<>>
                   ELSE << SourceDeclaration(<<"foo">>, variant,
                             << SourceField(<<"x">>, TRUE, type) >>) >>))] :
        <<at, imports, fields, variant, type>> \in
            {<<>>, MainNamespace} \X LooseImports \X {0, 1} \X Variants
            \X LooseTypes }

\* The schema sets of one schema that has imports and no declarations.
BareSets ==
    { [ns \in {at} |-> Entry(Source(imports, <<>>))] :
        <<at, imports>> \in {<<>>, MainNamespace} \X LooseImports }

SchemaSets ==
    SimpleSets \cup MainSets \cup ImportSets \cup NestedSets \cup LooseSets
    \cup BareSets

\* ------------------------------------------------------------------------
\* Display of a schema (schema.rs)
\* ------------------------------------------------------------------------

\* usize as decimal text, for the indices of the fields.
IndexText(index) == <<"0", "1", "2", "3">>[index + 1]

\* Display for Type: the text of a type.
DisplayType(type) ==
    IF type.import # None THEN type.import[1] \o "." \o type.name
    ELSE type.name

\* Display for Field: the text of a field.
DisplayField(field) ==
    IF field.restricted
    THEN "  " \o field.name \o ": restricted " \o DisplayType(field.type)
         \o " = " \o IndexText(field.index)
    ELSE "  " \o field.name \o ": " \o DisplayType(field.type)
         \o " = " \o IndexText(field.index)

\* Display for Declaration and for DeclarationVariant.
DisplayDeclaration(declaration) ==
    Writeln((IF declaration.variant = "Struct" THEN "struct " ELSE "choice ")
            \o declaration.name \o " {")
    \o Concat([i \in 1..Len(declaration.fields) |->
                 Writeln(DisplayField(declaration.fields[i]))])
    \o <<"}">>

\* A Display that ends the line before a declaration and writes no blank
\* line.
DeclarationBreakSingle == Newline

\* What Display writes before a declaration that is not the first item:
\* writeln!(f, "\n").
DeclarationBreak == <<"\n", "\n">>

\* Display for Schema.  skip_blank_line holds until the first item is
\* written.
DisplaySchema(schema) ==
    Concat([i \in 1..Len(schema.imports) |->
              (IF i = 1 THEN <<>> ELSE Newline)
              \o << "import '" \o schema.imports[i].original_path
                    \o "' as " \o schema.imports[i].name >>])
    \o Concat([i \in 1..Len(schema.declarations) |->
                 (IF i = 1 /\ schema.imports = <<>> THEN <<>>
                  ELSE DeclarationBreak)
                 \o DisplayDeclaration(schema.declarations[i])])

\* The imports of the schemas that are displayed.
DisplayImports ==
    { [original_path |-> "foo.t", name |-> "foo"],
      [original_path |-> "bar.t", name |-> "bar"] }

\* The fields of the schemas that are displayed.
DisplayFields ==
    { [name |-> "x", restricted |-> FALSE, index |-> 0,
       type |-> [import |-> None, name |-> "Int"]],
      [name |-> "y", restricted |-> FALSE, index |-> 1,
       type |-> [import |-> None, name |-> "String"]],
      [name |-> "z", restricted |-> TRUE, index |-> 2,
       type |-> [import |-> Some("foo"), name |-> "Baz"]] }

\* The lists of at most n different items of the set S, in any order.
ListsOf(S, n) ==
    UNION { { l \in [1..k -> S] : \A i, j \in 1..k : i # j => l[i] # l[j] } :
            k \in 0..n }

\* The declarations of the schemas that are displayed.
DisplayDeclarations ==
    { [variant |-> v[1], name |-> v[2], fields |-> l] :
        <<v, l>> \in { <<"Struct", "Foo">>, <<"Choice", "Bar">> }
                     \X ListsOf(DisplayFields, MaxFields) }

\* The schemas that are displayed.
DisplaySchemas ==
    { [imports |-> i, declarations |-> d] :
        <<i, d>> \in ListsOf(DisplayImports, MaxImports)
                     \X ListsOf(DisplayDeclarations, MaxDeclarations) }

\* ------------------------------------------------------------------------
\* generate
\* ------------------------------------------------------------------------

VARIABLES
    schemas,    \* the argument of generate: namespace -> (schema, contents)
    pending,    \* the calls of insert_schema yet to be made
    inserted,   \* the calls of insert_schema made so far
    self,       \* the schema Display is applied to
    check,      \* a call of check_match or check_ok: its function, its
                \* argument x, what serialize and deserialize returned, and
                \* what the call returns
    tree,       \* the tree of modules
    buffer,     \* the text written so far
    pc          \* "insert" while the tree is populated, then "done", or
                \* "panic" when generate panics

vars == <<schemas, pending, inserted, self, check, tree, buffer, pc>>

\* No call of check_match or check_ok.
NoCheck == <<>>

\* The arguments of one call of insert_schema.
Call(namespace, schema) == [namespace |-> namespace, schema |-> schema]

\* The calls the loop of generate over `schemas` makes, in its order.
CallsOf(map) ==
    LET keys == SortNamespaces(DOMAIN map)
    IN  [i \in 1..Len(keys) |-> Call(keys[i], map[keys[i]].schema)]

Init ==
    /\ schemas \in SchemaSets
    /\ pending = CallsOf(schemas)
    /\ inserted = <<>>
    /\ self = EmptySchema
    /\ check = NoCheck
    /\ tree = EmptyTree
    /\ buffer = <<>>
    /\ pc = "insert"

\* One iteration of the loop that populates the tree.
InsertSchema ==
    /\ pc = "insert"
    /\ pending # <<>>
    /\ tree' = insert_schema(tree, <<>>, Head(pending).namespace,
                             Head(pending).schema)
    /\ pending' = Tail(pending)
    /\ inserted' = Append(inserted, Head(pending))
    /\ UNCHANGED <<schemas, self, check, buffer, pc>>

\* The code is written and returned, unless writing it panics.
Generate ==
    /\ pc = "insert"
    /\ pending = <<>>
    /\ IF Panics(tree)
       THEN buffer' = buffer /\ pc' = "panic"
       ELSE buffer' = WriteCode(tree) /\ pc' = "done"
    /\ UNCHANGED <<schemas, pending, inserted, self, check, tree>>

Next == InsertSchema \/ Generate

Spec == Init /\ [][Next]_vars

\* ------------------------------------------------------------------------
\* insert_schema on any sequence of calls
\* ------------------------------------------------------------------------

\* The namespaces of the calls.
InsertNamespaces ==
    { <<>>, << <<"basic">> >>, UnitNamespace, VoidNamespace, MainNamespace }

\* The calls: a source file inserted at a namespace.
InsertCalls ==
    { [namespace |-> ns, contents |-> c] :
        <<ns, c>> \in InsertNamespaces \X SimpleSources }

\* The sequences of at most MaxCalls calls: the same namespace may be
\* inserted at more than once, and a namespace before a prefix of it.
CallLists == UNION { [1..n -> InsertCalls] : n \in 0..MaxCalls }

\* The schema set a sequence of calls leaves: of each namespace the source
\* file that was inserted last.
LastInserted(calls) ==
    [ns \in { calls[i].namespace : i \in DOMAIN calls } |->
        LET last == CHOOSE i \in DOMAIN calls :
                        /\ calls[i].namespace = ns
                        /\ \A j \in DOMAIN calls :
                             calls[j].namespace = ns => j <= i
        IN  Entry(calls[last].contents)]

InitInsert ==
    \E calls \in CallLists :
        /\ schemas = LastInserted(calls)
        /\ pending = [i \in DOMAIN calls |->
                         Call(calls[i].namespace,
                              SchemaOf(calls[i].contents))]
        /\ inserted = <<>>
        /\ self = EmptySchema
        /\ check = NoCheck
        /\ tree = EmptyTree
        /\ buffer = <<>>
        /\ pc = "insert"

NextInsert == InsertSchema

SpecInsert == InitInsert /\ [][NextInsert]_vars

\* ------------------------------------------------------------------------
\* Display on any schema
\* ------------------------------------------------------------------------

InitDisplay ==
    /\ self \in DisplaySchemas
    /\ schemas = <<>>
    /\ pending = <<>>
    /\ inserted = <<>>
    /\ check = NoCheck
    /\ tree = EmptyTree
    /\ buffer = <<>>
    /\ pc = "display"

\* format!("{}", self)
Display ==
    /\ pc = "display"
    /\ buffer' = DisplaySchema(self)
    /\ pc' = "displayed"
    /\ UNCHANGED <<schemas, pending, inserted, self, check, tree>>

NextDisplay == Display

SpecDisplay == InitDisplay /\ [][NextDisplay]_vars

\* ------------------------------------------------------------------------
\* check_match and check_ok (round_trip.rs)
\* ------------------------------------------------------------------------

\* io::Result: Ok with a value, or Err with an error.
Ok(value) == [ok |-> TRUE, value |-> value]

Err(error) == [ok |-> FALSE, error |-> error]

\* Error::new(ErrorKind::Other, "Mismatch!")
Mismatch == [kind |-> "Other", message |-> "Mismatch!"]

\* The errors serialize and deserialize may return.
IoErrors ==
    { [kind |-> "UnexpectedEof", message |-> "failed to fill whole buffer"],
      [kind |-> "Other", message |-> "Mismatch!"] }

\* The debug renderings of the values.
Renderings == {"A", "B"}

\* The bytes serialize may leave in the buffer.
ByteLists == UNION { [1..n -> {0, 1}] : n \in 0..MaxBytes }

\* What serialize may return.
SerializeResults == {Ok(<<>>)} \cup { Err(e) : e \in IoErrors }

\* What deserialize may return: a value, given by its debug rendering, or an
\* error.
DeserializeResults ==
    { Ok(r) : r \in Renderings } \cup { Err(e) : e \in IoErrors }

\* The calls of check_match and check_ok: x is given by its size() and by
\* the debug rendering of U::from(x).
Checks ==
    [function   : {"check_match", "check_ok"},
     x          : [size : 0..MaxBytes, debug : Renderings],
     serialized : {None},
     y          : {None},
     result     : {None}]

InitCheck ==
    /\ check \in Checks
    /\ schemas = <<>>
    /\ pending = <<>>
    /\ inserted = <<>>
    /\ self = EmptySchema
    /\ tree = EmptyTree
    /\ buffer = <<>>
    /\ pc = "serialize"

\* x.serialize(&mut buffer)?
Serialize ==
    /\ pc = "serialize"
    /\ \E bytes \in ByteLists, r \in SerializeResults :
         /\ buffer' = bytes
         /\ check' = [check EXCEPT !.serialized = Some(r),
                                   !.result = IF r.ok THEN None
                                              ELSE Some(Err(r.error))]
         /\ pc' = IF r.ok THEN "length" ELSE "returned"
    /\ UNCHANGED <<schemas, pending, inserted, self, tree>>

\* A comparison that lets a buffer longer than size() pass.
LengthDiffersShort(len, size) == len < size

\* buffer.len() != size
LengthDiffers(len, size) == len # size

\* The comparison of the length of the buffer with size().
CompareLength ==
    /\ pc = "length"
    /\ IF LengthDiffers(Len(buffer), check.x.size)
       THEN /\ check' = [check EXCEPT !.result = Some(Err(Mismatch))]
            /\ pc' = "returned"
       ELSE /\ check' = check
            /\ pc' = "deserialize"
    /\ UNCHANGED <<schemas, pending, inserted, self, tree, buffer>>

\* U::deserialize(&mut buffer.as_slice())?
Deserialize ==
    /\ pc = "deserialize"
    /\ \E r \in DeserializeResults :
         /\ check' = [check EXCEPT !.y = Some(r),
                                   !.result = IF r.ok THEN None
                                              ELSE Some(Err(r.error))]
         /\ pc' = IF r.ok THEN "compare" ELSE "returned"
    /\ UNCHANGED <<schemas, pending, inserted, self, tree, buffer>>

\* The end of the function: check_ok returns Ok(()), check_match compares
\* the debug renderings of y and of U::from(x).
Compare ==
    /\ pc = "compare"
    /\ check' = [check EXCEPT !.result =
                    IF check.function = "check_ok" THEN Some(Ok(<<>>))
                    ELSE IF check.y[1].value = check.x.debug
                    THEN Some(Ok(<<>>))
                    ELSE Some(Err(Mismatch))]
    /\ pc' = "returned"
    /\ UNCHANGED <<schemas, pending, inserted, self, tree, buffer>>

NextCheck == Serialize \/ CompareLength \/ Deserialize \/ Compare

SpecCheck == InitCheck /\ [][NextCheck]_vars

\* ------------------------------------------------------------------------
\* Reading the written text
\* ------------------------------------------------------------------------

\* A sequence given by a function on 1..n, evaluated once.
Evaluated(seq) == seq \o <<>>

\* The lines of the text b, without their line breaks.
Lines(b) ==
    LET ends   == { i \in DOMAIN b : b[i] = "\n" }
        starts == { i \in DOMAIN b : i = 1 \/ b[i - 1] = "\n" }
        number == Evaluated([i \in DOMAIN b |->
                      Cardinality({ j \in ends : j < i }) + 1])
    IN  Evaluated([k \in 1..Cardinality(ends) |->
            SubSeq(b, CHOOSE i \in starts : number[i] = k,
                      (CHOOSE e \in ends : number[e] = k) - 1)])

\* The number of indentation units a line starts with.
IndentOf(line) ==
    Cardinality({ i \in DOMAIN line :
                    \A j \in 1..i : line[j] = INDENTATION })

KindOf(body) ==
    IF body = <<>> THEN "blank"
    ELSE IF body = <<"}">> THEN "close"
    ELSE IF body[1] = "pub mod " THEN "mod"
    ELSE IF body[1] = "pub struct " THEN "struct"
    ELSE IF body[1] = "pub enum " THEN "enum"
    ELSE IF StartsWith(body[1], "#[") THEN "attribute"
    ELSE "member"

\* The lines of the text b: of each its indentation, what follows the
\* indentation, and what kind of line it is.
ParsedLines(b) ==
    LET lines == Lines(b)
    IN  Evaluated([k \in DOMAIN lines |->
            LET indent == IndentOf(lines[k])
                body   == SubSeq(lines[k], indent + 1, Len(lines[k]))
            IN  [indent |-> indent, body |-> body, kind |-> KindOf(body)]])

\* The line that closes the block opened by line k of ls.
CloseOf(ls, k) ==
    LET closes == { c \in DOMAIN ls : /\ c > k
                                      /\ ls[c].kind = "close"
                                      /\ ls[c].indent = ls[k].indent }
    IN  IF closes = {} THEN Len(ls) + 1
        ELSE CHOOSE c \in closes : \A d \in closes : c <= d

\* A written identifier without its `r#`.
Unescaped(tokens) ==
    IF tokens # <<>> /\ tokens[1] = "r#" THEN Tail(tokens) ELSE tokens

\* The module headers among the lines ls, in the order of the text: of each
\* its line, the line that closes it, its depth and its name.
ModulesIn(ls) ==
    LET opens  == { m \in DOMAIN ls : ls[m].kind = "mod" }
        Nth(n) == CHOOSE m \in opens :
                      Cardinality({ j \in opens : j <= m }) = n
    IN  Evaluated([n \in 1..Cardinality(opens) |->
            LET m == Nth(n)
            IN  [line   |-> m,
                 close  |-> CloseOf(ls, m),
                 indent |-> ls[m].indent,
                 name   |-> Unescaped(SubSeq(ls[m].body, 2,
                                             Len(ls[m].body) - 1))[1]]])

\* The names of the modules around line k, outermost first.
ModulesOf(mods, k) ==
    LET around == { n \in DOMAIN mods : /\ mods[n].line < k
                                        /\ mods[n].close > k }
    IN  Evaluated([d \in 1..Cardinality(around) |->
            mods[CHOOSE n \in around : mods[n].indent = d - 1].name])

\* A member line (a field or a variant): its name and what follows it.
MemberOf(body) ==
    LET at == IF body[1] = "r#" THEN 2 ELSE 1
    IN  [name    |-> body[at],
         escaped |-> at = 2,
         rest    |-> SubSeq(body, at + 1, Len(body))]

\* The types written in the text b, in the order in which they are written:
\* for each the line of its header, the modules around it, `struct` or
\* `enum`, its name, its flavor and its members.
TypesOf(b) ==
    LET ls      == ParsedLines(b)
        mods    == ModulesIn(ls)
        headers == { k \in DOMAIN ls : ls[k].kind \in {"struct", "enum"} }
        Nth(n)  == CHOOSE k \in headers :
                       Cardinality({ j \in headers : j <= k }) = n
        TypeOf(k) ==
            LET body == ls[k].body
                end  == CloseOf(ls, k)
            IN  [line    |-> k,
                 modules |-> ModulesOf(mods, k),
                 kind    |-> ls[k].kind,
                 name    |-> Unescaped(SubSeq(body, 2, Len(body) - 2))[1],
                 flavor  |-> body[Len(body) - 1],
                 members |-> Evaluated([i \in 1..(end - k - 1) |->
                                 MemberOf(ls[k + i].body)])]
    IN  Evaluated([n \in 1..Cardinality(headers) |-> TypeOf(Nth(n))])

\* The module path of a namespace as it is written.
ModulePath(namespace) ==
    [i \in 1..Len(namespace) |-> snake_case(namespace[i])]

\* The positions, among the written types ts, of the flavors of the
\* declaration `name` of the schema at `namespace`.
FlavorsOf(ts, namespace, name) ==
    { n \in DOMAIN ts : /\ ts[n].modules = ModulePath(namespace)
                        /\ ts[n].name = pascal_case(name) }

\* The position of one flavor of a declaration, 0 when it is not written.
FlavorAt(ts, namespace, name, flavor) ==
    LET found == { n \in FlavorsOf(ts, namespace, name) :
                     ts[n].flavor = flavor }
    IN  IF found = {} THEN 0 ELSE CHOOSE n \in found : TRUE

\* The declarations of the schema set: the pairs of a namespace and a name.
Declarations ==
    UNION { { <<ns, n>> : n \in DOMAIN schemas[ns].schema.declarations } :
            ns \in DOMAIN schemas }

DeclarationAt(d) == schemas[d[1]].schema.declarations[d[2]]

Fields(d) == DeclarationAt(d).fields

\* The member called `name` of the written type t: the set of its positions.
MembersNamed(t, name) ==
    { i \in DOMAIN t.members : t.members[i].name = name }

\* The tokens a namespace path may consist of.
PathTokens ==
    {"super::", "::", "r#"} \cup { snake_case(<<w>>) : w \in Words }

\* tokens is a reference to `type` at `flavor`: `bool` for the primitive;
\* for a declared type a path, then the name of the type, then the flavor.
IsReference(tokens, type, flavor) ==
    IF type.variant = "Bool" THEN tokens = <<"bool">>
    ELSE /\ Len(tokens) >= 2
         /\ tokens[Len(tokens)] = flavor
         /\ tokens[Len(tokens) - 1] = pascal_case(type.name)
         /\ \A i \in 1..(Len(tokens) - 2) : tokens[i] \in PathTokens

\* The ways in which the name of a type is written.
WrittenNames(name) ==
    { <<pascal_case(name)>>, <<"r#", pascal_case(name)>> }

\* ------------------------------------------------------------------------
\* Properties
\* ------------------------------------------------------------------------

\* C1: every struct declaration is written as exactly two types, In and
\* Out; every choice declaration as exactly three, Stable, In and Out; no
\* other type is written; and the variants of the Stable type of a choice
\* are exactly the variants of the choice that are not restricted.
FlavorRule ==
    pc = "done" =>
        LET ts == TypesOf(buffer)
        IN  /\ \A d \in Declarations :
                 LET written == FlavorsOf(ts, d[1], d[2])
                     flavors == { ts[n].flavor : n \in written }
                 IN  IF DeclarationAt(d).variant = "Struct"
                     THEN /\ Cardinality(written) = 2
                          /\ flavors = {"In", "Out"}
                          /\ \A n \in written : ts[n].kind = "struct"
                     ELSE /\ Cardinality(written) = 3
                          /\ flavors = {"Stable", "In", "Out"}
                          /\ \A n \in written : ts[n].kind = "enum"
                          /\ LET stable ==
                                     ts[FlavorAt(ts, d[1], d[2], "Stable")]
                                 listed ==
                                     { f \in DOMAIN Fields(d) :
                                         ~Fields(d)[f].unstable }
                             IN  /\ { stable.members[i].name :
                                        i \in DOMAIN stable.members }
                                    = { pascal_case(f) : f \in listed }
                                 /\ Len(stable.members) = Cardinality(listed)
            /\ \A n \in DOMAIN ts :
                 \E d \in Declarations : n \in FlavorsOf(ts, d[1], d[2])

\* The code is written for a schema with a struct and with a choice that has
\* a restricted variant and a variant that is not restricted.
FlavorRuleWitness ==
    /\ pc = "done"
    /\ \E d \in Declarations : DeclarationAt(d).variant = "Struct"
    /\ \E d \in Declarations :
         /\ DeclarationAt(d).variant = "Choice"
         /\ \E f, g \in DOMAIN Fields(d) :
              Fields(d)[f].unstable /\ ~Fields(d)[g].unstable

\* C2: in the In struct the type of a field is wrapped in Option exactly
\* when the field is restricted; in the Out struct no field is wrapped; and
\* the type of the field is written at the flavor of the struct.
StructFieldRule ==
    pc = "done" =>
        LET ts == TypesOf(buffer)
        IN  \A d \in Declarations :
              DeclarationAt(d).variant = "Struct" =>
                \A flavor \in {"In", "Out"} :
                  LET t == ts[FlavorAt(ts, d[1], d[2], flavor)]
                  IN  \A f \in DOMAIN Fields(d) :
                        /\ Cardinality(MembersNamed(t, snake_case(f))) = 1
                        /\ \A i \in MembersNamed(t, snake_case(f)) :
                             LET rest    == t.members[i].rest
                                 wrapped == rest[2] = "Option<"
                                 inner   ==
                                     IF wrapped
                                     THEN SubSeq(rest, 3, Len(rest) - 2)
                                     ELSE SubSeq(rest, 2, Len(rest) - 1)
                             IN  /\ rest[1] = ": "
                                 /\ rest[Len(rest)] = ","
                                 /\ wrapped => rest[Len(rest) - 1] = ">"
                                 /\ wrapped <=> (Fields(d)[f].unstable
                                                  /\ flavor = "In")
                                 /\ IsReference(inner, Fields(d)[f].type,
                                                flavor)

\* The code is written for a struct with a restricted field of a declared
\* type and a field that is not restricted.
StructFieldRuleWitness ==
    /\ pc = "done"
    /\ \E d \in Declarations :
         /\ DeclarationAt(d).variant = "Struct"
         /\ \E f, g \in DOMAIN Fields(d) :
              /\ Fields(d)[f].unstable
              /\ Fields(d)[f].type.variant = "Custom"
              /\ ~Fields(d)[g].unstable

\* What follows the name of a variant that carries the one payload `type`
\* at `flavor`.
IsSinglePayload(rest, type, flavor) ==
    /\ Len(rest) >= 3
    /\ rest[1] = "("
    /\ rest[Len(rest)] = "),"
    /\ IsReference(SubSeq(rest, 2, Len(rest) - 1), type, flavor)

\* C3: in the Out flavor of a choice a variant that is not restricted
\* carries one payload, its type at Out; a restricted variant carries three:
\* its type at Out, a Vec of the Out flavor of the choice, and the Stable
\* flavor of the choice.
OutVariantRule ==
    pc = "done" =>
        LET ts == TypesOf(buffer)
        IN  \A d \in Declarations :
              DeclarationAt(d).variant = "Choice" =>
                LET t == ts[FlavorAt(ts, d[1], d[2], "Out")]
                IN  \A f \in DOMAIN Fields(d) :
                      /\ Cardinality(MembersNamed(t, pascal_case(f))) = 1
                      /\ \A i \in MembersNamed(t, pascal_case(f)) :
                           LET rest == t.members[i].rest
                           IN  IF ~Fields(d)[f].unstable
                               THEN IsSinglePayload(rest, Fields(d)[f].type,
                                                    "Out")
                               ELSE \E own \in WrittenNames(d[2]) :
                                      LET tail == <<", Vec<">> \o own
                                                  \o <<"Out>, ">> \o own
                                                  \o <<"Stable", "),">>
                                          n == Len(rest) - Len(tail)
                                      IN  /\ n >= 2
                                          /\ rest[1] = "("
                                          /\ SubSeq(rest, n + 1, Len(rest))
                                             = tail
                                          /\ IsReference(
                                                 SubSeq(rest, 2, n),
                                                 Fields(d)[f].type, "Out")

\* The code is written for a choice with a restricted variant of a declared
\* type and a variant that is not restricted.
OutVariantRuleWitness ==
    /\ pc = "done"
    /\ \E d \in Declarations :
         /\ DeclarationAt(d).variant = "Choice"
         /\ \E f, g \in DOMAIN Fields(d) :
              /\ Fields(d)[f].unstable
              /\ Fields(d)[f].type.variant = "Custom"
              /\ ~Fields(d)[g].unstable
              /\ Fields(d)[g].type.variant = "Custom"

\* C4: the In flavor of a choice lists every variant of the choice, each
\* with the one payload of its type at In.
InVariantRule ==
    pc = "done" =>
        LET ts == TypesOf(buffer)
        IN  \A d \in Declarations :
              DeclarationAt(d).variant = "Choice" =>
                LET t == ts[FlavorAt(ts, d[1], d[2], "In")]
                IN  /\ Len(t.members) = Cardinality(DOMAIN Fields(d))
                    /\ \A f \in DOMAIN Fields(d) :
                         /\ Cardinality(MembersNamed(t, pascal_case(f))) = 1
                         /\ \A i \in MembersNamed(t, pascal_case(f)) :
                              IsSinglePayload(t.members[i].rest,
                                              Fields(d)[f].type, "In")

\* The code is written for a choice with a restricted variant of a declared
\* type.
InVariantRuleWitness ==
    /\ pc = "done"
    /\ \E d \in Declarations :
         /\ DeclarationAt(d).variant = "Choice"
         /\ \E f \in DOMAIN Fields(d) :
              /\ Fields(d)[f].unstable
              /\ Fields(d)[f].type.variant = "Custom"

\* C5: every variant the Stable flavor of a choice lists carries the one
\* payload of its type at Out.
StableVariantRule ==
    pc = "done" =>
        LET ts == TypesOf(buffer)
        IN  \A d \in Declarations :
              DeclarationAt(d).variant = "Choice" =>
                LET t == ts[FlavorAt(ts, d[1], d[2], "Stable")]
                IN  \A i \in DOMAIN t.members :
                      \E f \in DOMAIN Fields(d) :
                        /\ pascal_case(f) = t.members[i].name
                        /\ IsSinglePayload(t.members[i].rest,
                                           Fields(d)[f].type, "Out")

\* The type a reference of the schema at `namespace` refers to is a choice.
IsChoiceType(namespace, type) ==
    /\ type.variant = "Custom"
    /\ LET schema == schemas[namespace].schema
           target == IF type.import = None THEN namespace
                     ELSE schema.imports[type.import[1]].namespace[1]
       IN  /\ target \in DOMAIN schemas
           /\ type.name \in DOMAIN schemas[target].schema.declarations
           /\ schemas[target].schema.declarations[type.name].variant
              = "Choice"

\* The code is written for a choice with a variant that is not restricted
\* and whose type is a choice.
StableVariantRuleWitness ==
    /\ pc = "done"
    /\ \E d \in Declarations :
         /\ DeclarationAt(d).variant = "Choice"
         /\ \E f \in DOMAIN Fields(d) :
              /\ ~Fields(d)[f].unstable
              /\ IsChoiceType(d[1], Fields(d)[f].type)

\* C6: the flavors of a declaration are written one after the other, with
\* no type of another declaration and no module between them: In, Out for a
\* struct; Stable, In, Out for a choice.
FlavorOrder ==
    pc = "done" =>
        LET ts == TypesOf(buffer)
            ls == ParsedLines(buffer)
        IN  \A d \in Declarations :
              LET order == IF DeclarationAt(d).variant = "Struct"
                           THEN <<"In", "Out">>
                           ELSE <<"Stable", "In", "Out">>
                  first == FlavorAt(ts, d[1], d[2], order[1])
              IN  /\ first > 0
                  /\ first + Len(order) - 1 <= Len(ts)
                  /\ \A i \in DOMAIN order :
                       /\ ts[first + i - 1].flavor = order[i]
                       /\ first + i - 1 \in FlavorsOf(ts, d[1], d[2])
                  /\ \A k \in DOMAIN ls :
                       /\ ts[first].line < k
                       /\ k < ts[first + Len(order) - 1].line
                       => ls[k].kind \notin {"mod"}

\* The code is written for a schema with a struct and a choice.
FlavorOrderWitness ==
    /\ pc = "done"
    /\ \E d, e \in Declarations :
         /\ d[1] = e[1]
         /\ DeclarationAt(d).variant = "Struct"
         /\ DeclarationAt(e).variant = "Choice"

\* The tokens that end a reference inside a member line.
Terminators == {",", ">", "),", ", Vec<"}

\* The first reference of a member line: what follows the name, without
\* the opening `: `, `: Option<` or `(`, up to the first terminator.
FirstReference(rest) ==
    LET from == IF rest[2] = "Option<" THEN 3 ELSE 2
        stop == CHOOSE i \in from..Len(rest) :
                    /\ rest[i] \in Terminators
                    /\ \A j \in from..(i - 1) : rest[j] \notin Terminators
    IN  SubSeq(rest, from, stop - 1)

\* The tokens of a sequence other than `r#`.
RECURSIVE WithoutEscapes(_)
WithoutEscapes(tokens) ==
    IF tokens = <<>> THEN <<>>
    ELSE (IF Head(tokens) = "r#" THEN <<>> ELSE <<Head(tokens)>>)
         \o WithoutEscapes(Tail(tokens))

\* The path of a reference to a declared type: the reference without the
\* name of the type and its flavor.
PathOf(reference) ==
    LET plain == WithoutEscapes(reference)
    IN  SubSeq(plain, 1, Len(plain) - 2)

\* The module a path leads to from the module `from`: an ancestor marker
\* drops the last component, a name is appended, `::` is passed over.
RECURSIVE Follow(_, _)
Follow(from, path) ==
    IF path = <<>> THEN from
    ELSE IF Head(path) = "super::"
         THEN IF from = <<>> THEN <<"?">>
              ELSE Follow(SubSeq(from, 1, Len(from) - 1), Tail(path))
    ELSE IF Head(path) = "::" THEN Follow(from, Tail(path))
    ELSE Follow(Append(from, Head(path)), Tail(path))

\* The length of the longest common prefix of two namespaces.
CommonPrefix(a, b) ==
    Cardinality({ k \in 1..Len(a) :
                    k <= Len(b) /\ SubSeq(a, 1, k) = SubSeq(b, 1, k) })

\* The namespace a type of the schema at `namespace` is declared in.
TargetOf(namespace, type) ==
    IF type.import = None THEN namespace
    ELSE schemas[namespace].schema.imports[type.import[1]].namespace[1]

\* The references to declared types in the written text: for each the
\* namespace it is written in, the namespace of its type, and its path.
WrittenPaths ==
    LET ts == TypesOf(buffer)
    IN  UNION { UNION { { [current |-> d[1],
                           target  |-> TargetOf(d[1], Fields(d)[f].type),
                           path    |-> PathOf(FirstReference(
                                           ts[n].members[i].rest))] :
                          i \in MembersNamed(ts[n], snake_case(f))
                                \cup MembersNamed(ts[n], pascal_case(f)) } :
                        <<n, f>> \in
                            FlavorsOf(ts, d[1], d[2])
                            \X { g \in DOMAIN Fields(d) :
                                   Fields(d)[g].type.variant = "Custom" } } :
                d \in Declarations }

\* C7: the path of a reference written in namespace A to a type of
\* namespace B is |A| - |P| ancestor markers, P the longest common prefix of
\* A and B, and then the components of B after P, each followed by `::`;
\* followed from A, the path leads to B.
RelativePathRule ==
    pc = "done" =>
        \A r \in WrittenPaths :
            LET common == CommonPrefix(r.current, r.target)
                up     == Len(r.current) - common
                down   == Len(r.target) - common
            IN  /\ Len(r.path) = up + 2 * down
                /\ \A i \in 1..up : r.path[i] = "super::"
                /\ \A i \in 1..down :
                     /\ r.path[up + 2 * i - 1]
                        = snake_case(r.target[common + i])
                     /\ r.path[up + 2 * i] = "::"
                /\ Follow(ModulePath(r.current), r.path)
                   = ModulePath(r.target)

\* A reference is written two modules below the longest common prefix to a
\* type one module below it.
RelativePathRuleWitness ==
    /\ pc = "done"
    /\ \E r \in WrittenPaths :
         /\ CommonPrefix(r.current, r.target) = 1
         /\ Len(r.current) = 3
         /\ Len(r.target) = 2

\* C8: no name in the written text is a keyword that is not preceded by
\* `r#`, and `r#` is written before keywords only.
KeywordRule ==
    \A i \in DOMAIN buffer :
        /\ buffer[i] \in RUST_KEYWORDS => i > 1 /\ buffer[i - 1] = "r#"
        /\ buffer[i] = "r#" =>
             /\ i < Len(buffer)
             /\ buffer[i + 1] \in RUST_KEYWORDS
             /\ i > 1 => buffer[i - 1] # "r#"

\* The text holds a module, a type and a field whose names are keywords,
\* and names that are not keywords.
KeywordRuleWitness ==
    /\ pc = "done"
    /\ \E i, j \in DOMAIN buffer :
         /\ buffer[i] = "Self"
         /\ buffer[j] \in {"self", "type"}
    /\ \E i \in DOMAIN buffer : buffer[i] \in {"Bar", "x", "main"}

\* The position of the first flavor of a declaration among the written
\* types ts.
FirstFlavor(ts, namespace, name) ==
    CHOOSE n \in FlavorsOf(ts, namespace, name) :
        \A m \in FlavorsOf(ts, namespace, name) : n <= m

\* C9: the declarations of a schema are written in the order in which the
\* source file of the schema declares them.
DeclarationSourceOrder ==
    pc = "done" =>
        LET ts == TypesOf(buffer)
        IN  \A ns \in DOMAIN schemas :
              LET declared == schemas[ns].contents.declarations
              IN  \A i, j \in DOMAIN declared :
                    i < j => FirstFlavor(ts, ns, declared[i].name)
                             < FirstFlavor(ts, ns, declared[j].name)

\* C10: the fields (variants) of a written struct or choice are in the
\* order in which the source file declares them.
FieldSourceOrder ==
    pc = "done" =>
        LET ts == TypesOf(buffer)
        IN  \A ns \in DOMAIN schemas :
              LET declared == schemas[ns].contents.declarations
              IN  \A k \in DOMAIN declared :
                    \A n \in FlavorsOf(ts, ns, declared[k].name) :
                      \A i, j \in DOMAIN declared[k].fields :
                        LET Written(f) ==
                                MembersNamed(ts[n], snake_case(f.name))
                                \cup MembersNamed(ts[n], pascal_case(f.name))
                        IN  i < j =>
                              \A a \in Written(declared[k].fields[i]) :
                                \A b \in Written(declared[k].fields[j]) :
                                  a < b

\* C11: for the empty schema set generate returns the empty text: no
\* header, no module, no blank line.
EmptySetRule ==
    pc = "done" /\ DOMAIN schemas = {} => buffer = <<>>

\* generate has returned for the empty schema set.
EmptySetRuleWitness ==
    pc = "done" /\ DOMAIN schemas = {}

\* The nodes of the tree that have both child modules and declarations.
MixedNodes ==
    { p \in DOMAIN tree :
        Children(tree, p) # {} /\ ~IsEmpty(tree[p].declarations) }

\* The nodes of the tree that have more than one child module.
ForkNodes ==
    { p \in DOMAIN tree : Cardinality(Children(tree, p)) > 1 }

\* C12: two sections that follow each other at the same level (modules,
\* declarations, flavors) are separated by exactly one blank line: a
\* closing line is followed by the end of the text, by another closing
\* line, or by one blank line and then the first line of a section, and a
\* section starts right after a module header or after one blank line that
\* follows a closing line or the header of the text.  No two blank lines
\* follow each other, no blank line stands before a closing line, and the
\* text does not end with a blank line.
BlankLineRule ==
    pc = "done" =>
        LET ls == ParsedLines(buffer)
            Blank(k) == ls[k].kind = "blank"
            Starts(k) ==
                /\ ls[k].kind = "attribute"
                /\ k + 1 <= Len(ls)
                /\ ls[k + 1].kind \in {"mod", "struct", "enum"}
        IN  /\ \A k \in DOMAIN ls :
                 Blank(k) => /\ k < Len(ls)
                             /\ k > 1
                             /\ ~Blank(k + 1)
                             /\ ls[k + 1].kind # "close"
            /\ \A k \in DOMAIN ls :
                 ls[k].kind = "close" /\ k < Len(ls) =>
                   \/ ls[k + 1].kind = "close"
                   \/ /\ Blank(k + 1)
                      /\ k + 2 <= Len(ls)
                      /\ Starts(k + 2)
            /\ \A k \in DOMAIN ls :
                 Starts(k) =>
                   /\ k > 1
                   /\ \/ ls[k - 1].kind = "mod"
                      \/ /\ Blank(k - 1)
                         /\ k > 2
                         /\ \/ ls[k - 2].kind = "close"
                            \/ k - 2 = 1
            /\ \A k \in DOMAIN ls :
                 ls[k].kind \in {"mod", "struct", "enum"} =>
                   k > 1 /\ ls[k - 1].kind = "attribute"

\* The code is written for a tree with sibling modules, with a node that
\* has a child module and declarations, and with a schema of two
\* declarations.
BlankLineRuleWitness ==
    /\ pc = "done"
    /\ ForkNodes # {}
    /\ MixedNodes # {}
    /\ \E ns \in DOMAIN schemas :
         Cardinality(DOMAIN schemas[ns].schema.declarations) > 1

\* The position among the modules mods of the module of the node p.
ModulesAt(ls, mods, p) ==
    { n \in DOMAIN mods :
        /\ ModulesOf(mods, mods[n].line) = ModulePath(SubSeq(p, 1, Len(p) - 1))
        /\ mods[n].name = snake_case(p[Len(p)]) }

\* C13: every node of the tree but the root is written once, as the line
\* `pub mod <name> {` with the snake-case name of the node, then the
\* modules of its children in ascending order of their identifiers, then
\* its own declarations, then a closing line; the root is written in the
\* same way without the header and the closing line.
ModuleRule ==
    pc = "done" /\ HasContent(tree) =>
        LET ls   == ParsedLines(buffer)
            mods == ModulesIn(ls)
            ts   == TypesOf(buffer)
            At(p) == CHOOSE n \in ModulesAt(ls, mods, p) : TRUE
            Open(p)  == IF p = <<>> THEN 1 ELSE mods[At(p)].line
            Close(p) == IF p = <<>> THEN Len(ls) + 1 ELSE mods[At(p)].close
        IN  /\ Len(mods) = Cardinality(DOMAIN tree) - 1
            /\ Cardinality({ k \in DOMAIN ls : ls[k].kind = "close" })
               = Len(mods) + Len(ts)
            /\ \A p \in DOMAIN tree \ {<<>>} :
                 /\ Cardinality(ModulesAt(ls, mods, p)) = 1
                 /\ Close(p) <= Len(ls)
                 /\ LET body == ls[Open(p)].body
                    IN  /\ body[1] = "pub mod "
                        /\ body[Len(body)] = " {"
                        /\ SubSeq(body, 2, Len(body) - 1)
                           = WriteIdentifier(p[Len(p)], "Snake")
            /\ \A p \in DOMAIN tree :
                 /\ \A c \in Children(tree, p) :
                      /\ Open(p) < Open(Append(p, c))
                      /\ Close(Append(p, c)) < Close(p)
                 /\ \A c, d \in Children(tree, p) :
                      IdentLess(c, d) =>
                        Close(Append(p, c)) < Open(Append(p, d))
                 /\ \A n \in DOMAIN ts :
                      ts[n].modules = ModulePath(p) =>
                        /\ Open(p) < ts[n].line
                        /\ ts[n].line < Close(p)
                        /\ \A c \in Children(tree, p) :
                             Close(Append(p, c)) < ts[n].line

\* The code is written for a tree in which a node has two child modules and
\* a node other than the root has a child module and declarations.
ModuleRuleWitness ==
    /\ pc = "done"
    /\ ForkNodes # {}
    /\ MixedNodes \ {<<>>} # {}

\* The number of blocks that are open at line k of ls: the headers before
\* line k less the closing lines before it.
NestingOf(ls, k) ==
    Cardinality({ j \in 1..(k - 1) :
                    ls[j].kind \in {"mod", "struct", "enum"} })
    - Cardinality({ j \in 1..(k - 1) : ls[j].kind = "close" })

\* C14: every line of the text starts with a whole number of indentation
\* units: a line that is not a closing line with as many as there are
\* blocks open around it, a closing line with as many as there are blocks
\* open around its block, and a blank line with none.  So the header and
\* the closing line of the module at depth d have d - 1 units, the lines of
\* a type of that module d, and the fields and variants d + 1.
IndentationRule ==
    pc = "done" =>
        LET ls == ParsedLines(buffer)
        IN  /\ \A k \in DOMAIN ls :
                 /\ \A i \in DOMAIN ls[k].body : ls[k].body[i] # INDENTATION
                 /\ ls[k].indent =
                      IF ls[k].kind = "blank" THEN 0
                      ELSE IF ls[k].kind = "close"
                      THEN NestingOf(ls, k) - 1
                      ELSE NestingOf(ls, k)
            /\ LET ts   == TypesOf(buffer)
                   mods == ModulesIn(ls)
               IN  /\ \A n \in DOMAIN mods :
                        /\ ls[mods[n].line].indent
                           = Len(ModulesOf(mods, mods[n].line))
                        /\ ls[mods[n].line - 1].indent
                           = ls[mods[n].line].indent
                   /\ \A d \in Declarations :
                        \A n \in FlavorsOf(ts, d[1], d[2]) :
                          LET k == ts[n].line
                          IN  /\ ls[k].indent = Len(d[1])
                              /\ ls[k - 1].indent = Len(d[1])
                              /\ ls[k + Len(ts[n].members) + 1].indent
                                 = Len(d[1])
                              /\ \A i \in DOMAIN ts[n].members :
                                   ls[k + i].indent = Len(d[1]) + 1

\* The code is written for a schema at depth 3 that declares a type with
\* at least one field.
IndentationRuleWitness ==
    /\ pc = "done"
    /\ \E d \in Declarations :
         Len(d[1]) = 3 /\ DOMAIN Fields(d) # {}

\* The types of the fields of the schema at namespace ns.
TypesUsed(ns) ==
    LET declarations == schemas[ns].schema.declarations
    IN  UNION { { declarations[d].fields[f].type :
                    f \in DOMAIN declarations[d].fields } :
                d \in DOMAIN declarations }

\* The schema set is validated: every import has a namespace, and the name
\* that qualifies a type is the name of an import of the schema of the type.
Validated ==
    \A ns \in DOMAIN schemas :
        /\ \A name \in DOMAIN schemas[ns].schema.imports :
             schemas[ns].schema.imports[name].namespace # None
        /\ \A type \in TypesUsed(ns) :
             type.import # None =>
               type.import[1] \in DOMAIN schemas[ns].schema.imports

\* C15: generate does not panic on a validated schema set: the unwrap of
\* the namespace of an import and the lookup of the import of a type
\* succeed.
NoPanicRule ==
    Validated => pc # "panic"

\* generate has returned the code of a validated schema set in which a type
\* is qualified by an import.
NoPanicRuleWitness ==
    /\ pc = "done"
    /\ Validated
    /\ \E ns \in DOMAIN schemas :
         \E type \in TypesUsed(ns) : type.import # None

\* The types of the schema set all exist: the schema set is validated, and
\* a type that is not primitive is declared by the schema it is looked up
\* in.
Resolved ==
    /\ Validated
    /\ \A ns \in DOMAIN schemas :
         \A type \in TypesUsed(ns) :
           type.variant = "Custom" =>
             /\ TargetOf(ns, type) \in DOMAIN schemas
             /\ type.name \in
                  DOMAIN schemas[TargetOf(ns, type)].schema.declarations

\* The tokens a reference to a declared type ends with.
FlavorTokens == {"In", "Out", "Stable", "Out>, "}

\* The tokens a reference to a declared type comes after.
Openers == {": ", "Option<", "(", ", Vec<", "Out>, "}

\* The references to declared types in what follows the name of a member:
\* of each its path, the name of its type, its flavor, and the position of
\* its last token.
ReferencesIn(rest) ==
    { [path   |-> LET from == CHOOSE j \in 1..(i - 1) :
                                /\ rest[j] \in Openers
                                /\ \A k \in (j + 1)..(i - 1) :
                                     rest[k] \notin Openers
                  IN  WithoutEscapes(SubSeq(rest, from + 1, i - 2)),
       name   |-> rest[i - 1],
       flavor |-> IF rest[i] = "Out>, " THEN "Out" ELSE rest[i],
       at     |-> i] :
        i \in { j \in DOMAIN rest : rest[j] \in FlavorTokens } }

\* C16: every reference to a type in the text written for a validated
\* schema set names a type that is written: the type of that name and
\* flavor in the module the path of the reference leads to from the module
\* of the reference.
EmissionClosure ==
    pc = "done" /\ Resolved =>
        LET ts == TypesOf(buffer)
        IN  \A n \in DOMAIN ts :
              \A i \in DOMAIN ts[n].members :
                \A r \in ReferencesIn(ts[n].members[i].rest) :
                  \E k \in DOMAIN ts :
                    /\ ts[k].modules = Follow(ts[n].modules, r.path)
                    /\ ts[k].name = r.name
                    /\ ts[k].flavor = r.flavor

\* The code is written for a schema set with a reference to a type of
\* another module and with a restricted variant of a choice, which refers
\* to the choice itself.
EmissionClosureWitness ==
    /\ pc = "done"
    /\ Resolved
    /\ \E r \in WrittenPaths : r.path # <<>>
    /\ \E d \in Declarations :
         /\ DeclarationAt(d).variant = "Choice"
         /\ \E f \in DOMAIN Fields(d) : Fields(d)[f].unstable

\* The prefixes of a namespace, the empty one and the namespace among them.
Prefixes(ns) == { SubSeq(ns, 1, k) : k \in 0..Len(ns) }

\* The node a call is made for has a schema already.
Held(t, call) ==
    call.namespace \in DOMAIN t /\ t[call.namespace] # EmptySchema

\* insert_schema walks the path of the namespace of a call from tree t to
\* tree u and makes the nodes that are missing, with the empty schema.
Walked(t, u, call) ==
    /\ \A p \in Prefixes(call.namespace) : p \in DOMAIN u
    /\ \A p \in DOMAIN u \ DOMAIN t :
         /\ p \in Prefixes(call.namespace)
         /\ p # call.namespace => u[p] = EmptySchema
    /\ u[call.namespace] = call.schema

\* C17 as the claim has it: a call of insert_schema for a node that has a
\* schema already is an error, and every other call walks the path of the
\* namespace and makes the nodes that are missing.
InsertErrorRule ==
    [][inserted' # inserted =>
         IF Held(tree, Head(pending)) THEN pc' = "error"
         ELSE Walked(tree, tree', Head(pending))]_vars

\* C17: a call of insert_schema for a node that has a schema already is no
\* error: the schema of the call takes the place of the schema of the node.
\* Every call walks the path of the namespace and makes the nodes that are
\* missing, with the empty schema.
InsertRule ==
    [][inserted' # inserted =>
         /\ pc' = pc
         /\ Walked(tree, tree', Head(pending))]_vars

\* A schema has been inserted at a node that had another schema, and a
\* schema has been inserted two nodes below a node that had no child.
InsertRuleWitness ==
    /\ \E i, j \in DOMAIN inserted :
         /\ i < j
         /\ inserted[i].namespace = inserted[j].namespace
         /\ inserted[i].schema # EmptySchema
         /\ inserted[j].schema # inserted[i].schema
         /\ tree[inserted[j].namespace] = inserted[j].schema
    /\ inserted # <<>>
    /\ Len(inserted[1].namespace) = 2

\* The number of lines the declarations before the j-th take, the blank
\* lines before them not counted.
RECURSIVE LinesBefore(_, _)
LinesBefore(declarations, j) ==
    IF j <= 1 THEN 0
    ELSE LinesBefore(declarations, j - 1)
         + Len(declarations[j - 1].fields) + 2

\* C18: the text of a schema has a line `import '<path>' as <name>` for
\* each import, in the order of the list, and then the declarations, in the
\* order of the list, each after exactly one blank line unless it is the
\* first item; the text has no other blank line, no line break at its start
\* and none at its end; and the text of the schema with no imports and no
\* declarations is empty.
DisplayRule ==
    pc = "displayed" =>
        LET ls == IF buffer = <<>> THEN <<>> ELSE Lines(buffer \o Newline)
            n  == Len(self.imports)
            m  == Len(self.declarations)
            skipped == IF n = 0 THEN 1 ELSE 0
            Start(j) == n + LinesBefore(self.declarations, j)
                        + (j - skipped) + 1
        IN  /\ self.imports = <<>> /\ self.declarations = <<>>
                 => buffer = <<>>
            /\ buffer # <<>> =>
                 buffer[1] # "\n" /\ buffer[Len(buffer)] # "\n"
            /\ Len(ls) = n + LinesBefore(self.declarations, m + 1)
                         + (IF m = 0 THEN 0 ELSE m - skipped)
            /\ \A i \in 1..n :
                 ls[i] = << "import '" \o self.imports[i].original_path
                            \o "' as " \o self.imports[i].name >>
            /\ \A j \in 1..m :
                 LET d == self.declarations[j]
                     k == Start(j)
                 IN  /\ k > 1 => ls[k - 1] = <<>> /\ ls[k - 2] # <<>>
                     /\ ls[k] =
                          << (IF d.variant = "Struct" THEN "struct "
                              ELSE "choice ") \o d.name \o " {" >>
                     /\ \A f \in DOMAIN d.fields :
                          ls[k + f] = << DisplayField(d.fields[f]) >>
                     /\ ls[k + Len(d.fields) + 1] = <<"}">>

\* A schema with two imports and two declarations, the first of them with a
\* field, has been displayed.
DisplayRuleWitness ==
    /\ pc = "displayed"
    /\ Len(self.imports) = 2
    /\ Len(self.declarations) = 2
    /\ self.declarations[1].fields # <<>>

\* An insertion from tree t to tree u leaves the nodes that are not on the
\* path of the namespace ns as they are, and the nodes on the path above
\* its end with their schemas.
Framed(t, u, ns) ==
    \A p \in DOMAIN t :
        /\ p \in DOMAIN u
        /\ p # ns => u[p] = t[p]
        /\ p \notin Prefixes(ns) => Children(u, p) = Children(t, p)

\* C19: once every schema of a schema set is inserted, in whatever order,
\* the node at the path of each namespace of the set holds the schema of
\* that namespace, every other node holds the empty schema, and the nodes
\* of the tree are the prefixes of the namespaces of the set; and no
\* insertion changes the schema or the children of a node that is not on
\* the path it inserts at.
TreeRule ==
    /\ [](pending = <<>> /\ pc = "insert" =>
            /\ \A ns \in DOMAIN schemas :
                 ns \in DOMAIN tree /\ tree[ns] = schemas[ns].schema
            /\ \A p \in DOMAIN tree \ DOMAIN schemas : tree[p] = EmptySchema
            /\ DOMAIN tree
               = {<<>>} \cup UNION { Prefixes(ns) : ns \in DOMAIN schemas })
    /\ [][inserted' # inserted =>
            Framed(tree, tree', Head(pending).namespace)]_vars

\* Three schemas have been inserted: one at a namespace of two components,
\* then one at the namespace above it, then one beside the first.
TreeRuleWitness ==
    /\ pending = <<>>
    /\ Len(inserted) = 3
    /\ inserted[1].namespace = UnitNamespace
    /\ inserted[2].namespace = << <<"basic">> >>
    /\ inserted[3].namespace = VoidNamespace
    /\ \A i \in 1..3 : inserted[i].schema # EmptySchema

\* The member of the written type ts[n] at position i is written for a
\* restricted field of the declaration of the type.
IsRestrictedMember(ts, n, i) ==
    \E d \in Declarations :
        /\ n \in FlavorsOf(ts, d[1], d[2])
        /\ \E f \in DOMAIN Fields(d) :
             /\ Fields(d)[f].unstable
             /\ ts[n].members[i].name
                  \in {snake_case(f), pascal_case(f)}

\* C20: the flavors do not mix.  Every reference in an In type is at In.
\* Every reference in an Out type or in a Stable type is at Out, but for
\* the one reference at Stable: the last element of a restricted variant
\* of the Out type of a choice, which names the choice itself.
FlavorSeparation ==
    pc = "done" =>
        LET ts == TypesOf(buffer)
        IN  \A n \in DOMAIN ts :
              \A i \in DOMAIN ts[n].members :
                LET rest == ts[n].members[i].rest
                IN  \A r \in ReferencesIn(rest) :
                      IF ts[n].flavor = "In" THEN r.flavor = "In"
                      ELSE \/ r.flavor = "Out"
                           \/ /\ r.flavor = "Stable"
                              /\ ts[n].flavor = "Out"
                              /\ ts[n].kind = "enum"
                              /\ r.at = Len(rest) - 1
                              /\ r.path = <<>>
                              /\ r.name = ts[n].name
                              /\ IsRestrictedMember(ts, n, i)

\* The code is written for a choice with a restricted variant of a type of
\* another schema and a variant, not restricted, of a type of its own
\* schema, and the text has a reference at each of the three flavors.
FlavorSeparationWitness ==
    /\ pc = "done"
    /\ \E d \in Declarations :
         /\ DeclarationAt(d).variant = "Choice"
         /\ \E f, g \in DOMAIN Fields(d) :
              /\ Fields(d)[f].unstable
              /\ Fields(d)[f].type.variant = "Custom"
              /\ Fields(d)[f].type.import # None
              /\ ~Fields(d)[g].unstable
              /\ Fields(d)[g].type.variant = "Custom"
              /\ Fields(d)[g].type.import = None
    /\ LET ts == TypesOf(buffer)
       IN  { r.flavor :
               r \in UNION { UNION { ReferencesIn(ts[n].members[i].rest) :
                                       i \in DOMAIN ts[n].members } :
                             n \in DOMAIN ts } }
           = {"In", "Out", "Stable"}

\* The schema set has nothing to write: it is empty, or it is a schema with
\* no declarations at the empty namespace and nothing else.
NothingToWrite ==
    \A ns \in DOMAIN schemas :
        ns = <<>> /\ IsEmpty(schemas[ns].schema.declarations)

\* C21: the text generate returns is empty exactly when the schema set is
\* empty or is a schema with no declarations at the empty namespace alone.
\* In every other case, also when no schema has a declaration, the text
\* starts with the `#![allow(...)]` line and one blank line, and has a
\* module, with a header and a closing line, for every namespace of the set
\* that is not empty.
HeaderRule ==
    pc = "done" =>
        /\ buffer = <<>> <=> NothingToWrite
        /\ ~NothingToWrite =>
             LET ls   == ParsedLines(buffer)
                 mods == ModulesIn(ls)
             IN  /\ Len(ls) >= 3
                 /\ ls[1].indent = 0
                 /\ ls[1].body = << "#![allow(clippy::all, clippy::pedantic, "
                                    \o "clippy::nursery, warnings)]" >>
                 /\ ls[2].kind = "blank"
                 /\ ls[3].kind # "blank"
                 /\ \A ns \in DOMAIN schemas \ {<<>>} :
                      /\ Cardinality(ModulesAt(ls, mods, ns)) = 1
                      /\ \A n \in ModulesAt(ls, mods, ns) :
                           mods[n].close <= Len(ls)

\* The code is written for a schema set in which no schema has a
\* declaration and a namespace is not empty.
HeaderRuleWitness ==
    /\ pc = "done"
    /\ \E ns \in DOMAIN schemas : ns # <<>>
    /\ \A ns \in DOMAIN schemas : IsEmpty(schemas[ns].schema.declarations)
    /\ buffer # <<>>

\* C22: check_match and check_ok return Ok only when serialize returned Ok,
\* the buffer is as long as size() says, and deserialize returned Ok, and
\* for check_match the debug rendering of the value read is that of
\* U::from(x).  When the length differs from size() the error `Mismatch!`
\* is returned and deserialize is not called.  An error of serialize or of
\* deserialize is what the function returns.  Nothing is returned before
\* the function ends.
CheckRule ==
    /\ pc # "returned" => check.result = None
    /\ check.y # None =>
         /\ check.serialized = Some(Ok(<<>>))
         /\ Len(buffer) = check.x.size
    /\ pc = "returned" =>
         /\ check.result # None
         /\ check.result[1].ok =>
              /\ check.serialized = Some(Ok(<<>>))
              /\ Len(buffer) = check.x.size
              /\ check.y # None
              /\ check.y[1].ok
              /\ check.function = "check_match" =>
                   check.y[1].value = check.x.debug
         /\ check.serialized[1].ok /\ Len(buffer) # check.x.size =>
              /\ check.result = Some(Err(Mismatch))
              /\ check.y = None
         /\ ~check.serialized[1].ok =>
              /\ check.result = Some(Err(check.serialized[1].error))
              /\ check.y = None
         /\ check.y # None /\ ~check.y[1].ok =>
              check.result = Some(Err(check.y[1].error))

\* check_match has returned Ok for a value of two bytes.
CheckRuleWitness ==
    /\ pc = "returned"
    /\ check.function = "check_match"
    /\ check.result = Some(Ok(<<>>))
    /\ Len(buffer) = 2

====
